---- MODULE Spec2Model ----
(***************************************************************************)
(* Model of app_circular_platform_mvp.py: the monthly calculation, the KPI *)
(* traffic lights and the Admin pro forma of the circular plastics         *)
(* dashboard.  One run of the script is one behaviour: the sidebar values  *)
(* are the initial state, each block of the script is one action.          *)
(*                                                                         *)
(* Numbers.  The script computes with Python floats.  Here every number is *)
(* an exact rational [n, d] in lowest terms with d > 0; float("inf") is    *)
(* Inf and a division by zero (which raises ZeroDivisionError in Python)   *)
(* yields NaR, which the calling action turns into err/pc = "crashed".     *)
(* Rounding of the binary floating point format is not modelled.           *)
(*                                                                         *)
(* Inputs.  The non-rate inputs range over the bounds of their widgets.    *)
(* The six rate inputs also take values below 0 and above 1: lines 164-174 *)
(* clamp them, so the calculation is written for such values.              *)
(***************************************************************************)
EXTENDS Integers, Sequences, FiniteSets, TLC

\* ------------------------------------------------------------------
\* Rational arithmetic (Python float arithmetic, exact)
\* ------------------------------------------------------------------
Abs(x) == IF x < 0 THEN -x ELSE x

RECURSIVE GCD(_, _)
GCD(a, b) == IF b = 0 THEN a ELSE GCD(b, a % b)

LCM(a, b) == (a \div GCD(a, b)) * b

\* n/d in lowest terms, d > 0 required
Norm(n, d) ==
  LET g == GCD(Abs(n), d) IN [n |-> n \div g, d |-> d \div g]

Q(n, d) == IF d < 0 THEN Norm(-n, -d) ELSE Norm(n, d)

Zero == [n |-> 0, d |-> 1]
One == [n |-> 1, d |-> 1]
Inf == [n |-> 1, d |-> 0]
NaR == [n |-> 0, d |-> 0]

IsNum(a) == a.d > 0

RAdd(a, b) ==
  LET L == LCM(a.d, b.d)
  IN Norm(a.n * (L \div a.d) + b.n * (L \div b.d), L)

RNeg(a) == [n |-> -a.n, d |-> a.d]

RSub(a, b) == RAdd(a, RNeg(b))

RMul(a, b) ==
  LET g1 == GCD(Abs(a.n), b.d)
      g2 == GCD(Abs(b.n), a.d)
  IN Norm((a.n \div g1) * (b.n \div g2), (a.d \div g2) * (b.d \div g1))

\* a / b; Python raises ZeroDivisionError when b = 0
RDiv(a, b) ==
  IF b.n = 0 THEN NaR
  ELSE IF b.n > 0 THEN RMul(a, [n |-> b.d, d |-> b.n])
  ELSE RMul(a, [n |-> -b.d, d |-> -b.n])

RLe(a, b) ==
  LET L == LCM(a.d, b.d)
  IN a.n * (L \div a.d) <= b.n * (L \div b.d)

RLt(a, b) == RLe(a, b) /\ a # b

RMax(a, b) == IF RLe(a, b) THEN b ELSE a

RMin(a, b) == IF RLe(a, b) THEN a ELSE b

\* float(k) of a whole number
N(k) == [n |-> k, d |-> 1]

\* ------------------------------------------------------------------
\* Helpers (lines 35-47)
\* ------------------------------------------------------------------
\* def clamp(x, lo, hi): return min(max(float(x), lo), hi)
clamp(x, lo, hi) == RMin(RMax(x, lo), hi)

\* traffic_light with the call site's band dropped for the default 0.03
traffic_light_default_band(value, target, warn_band) ==
  IF RLe(target, value) THEN "green"
  ELSE IF RLe(RSub(target, Q(3, 100)), value) THEN "yellow"
  ELSE "red"

\* def traffic_light(value, target, warn_band=0.03)
traffic_light(value, target, warn_band) ==
  IF RLe(target, value) THEN "green"
  ELSE IF RLe(RSub(target, warn_band), value) THEN "yellow"
  ELSE "red"

\* the warn_band every call site passes (lines 228-231, 258-261)
warn_band_used == Q(5, 100)

target_recovery == Q(90, 100)
target_yield == Q(92, 100)
target_downtime_max == Q(8, 100)
target_scrap_max == Q(7, 100)

\* ------------------------------------------------------------------
\* Bounds of the input domain
\* ------------------------------------------------------------------
MaxSites == 2
MaxLbs == 1
MaxDollars == 1
MaxTrainees == 1

\* st.slider("Years", min_value=3, max_value=5)
MinYears == 3
MaxYears == 5

\* rate values a caller can hand to the calculation, in and out of [0,1]
RateInputs == {Q(-1, 2), Q(0, 1), Q(1, 10), Q(1, 2), Q(17, 20), Q(9, 10), Q(1, 1), Q(3, 2)}

\* percent values of the pro forma widgets (lines 308-314), before the / 100.0
GrowthSitesPct == {0, 50, 100}
GrowthLbsPct == {0, 100}
GrowthPricePct == {-50, 100}
GrowthCostPct == {-50, 100}
ReinvestPct == {50, 100}

VARIABLES
  pc, err, role,
  \* sidebar inputs (lines 135-158)
  sites, lbs_per_site_month, recovery_rate, yield_rate, downtime_rate,
  scrap_rate, sell_share, sell_price_lb, internal_value_lb,
  disposal_avoid_lb, carbon_value_lb, op_cost_site_month, capex_per_site,
  trainees_per_site_year, placement_rate,
  \* core calculations (lines 163-196)
  W, R, Y, D, S, recovered, usable, finished, sold_lbs, internal_lbs,
  sell_rev, internal_val, disp_avoid, carbon_val, gross_value, op_cost,
  net_profit, capex_total, payback_mo, trainees_total_year,
  placed_total_year,
  \* KPI traffic lights (lines 228-231, 258-261)
  k1, k2, k3, k4,
  \* pro forma inputs (lines 305-314)
  years, growth_sites, growth_lbs, growth_price, growth_cost, reinvest_rate,
  \* pro forma state (lines 318-362)
  value_per_recovered_lb, op_cost_per_site, capex_per_site_local,
  sites_y, lbs_site_y, vpr, op_cost_site_y, y, rows, pf

inputVars ==
  <<role, sites, lbs_per_site_month, recovery_rate, yield_rate, downtime_rate,
    scrap_rate, sell_share, sell_price_lb, internal_value_lb,
    disposal_avoid_lb, carbon_value_lb, op_cost_site_month, capex_per_site,
    trainees_per_site_year, placement_rate>>

coreVars ==
  <<W, R, Y, D, S, recovered, usable, finished, sold_lbs, internal_lbs,
    sell_rev, internal_val, disp_avoid, carbon_val, gross_value, op_cost,
    net_profit, capex_total, payback_mo, trainees_total_year,
    placed_total_year>>

kpiVars == <<k1, k2, k3, k4>>

pfInputVars ==
  <<years, growth_sites, growth_lbs, growth_price, growth_cost, reinvest_rate>>

seedVars == <<value_per_recovered_lb, op_cost_per_site, capex_per_site_local>>

loopVars == <<sites_y, lbs_site_y, vpr, op_cost_site_y, y, rows>>

vars ==
  <<pc, err, inputVars, coreVars, kpiVars, pfInputVars, seedVars, loopVars, pf>>

\* ------------------------------------------------------------------
\* Initial state: the sidebar has been read, nothing is computed yet
\* ------------------------------------------------------------------
Whole(lo, hi) == {N(k) : k \in lo..hi}

InitInputs(roleS, sitesS, lbsS, recS, yldS, dwnS, scrS, shrS, spS, ivS, daS, cvS, ocS, cxS, trS, plS) ==
  /\ role \in roleS
  /\ sites \in sitesS
  /\ lbs_per_site_month \in lbsS
  /\ recovery_rate \in recS
  /\ yield_rate \in yldS
  /\ downtime_rate \in dwnS
  /\ scrap_rate \in scrS
  /\ sell_share \in shrS
  /\ sell_price_lb \in spS
  /\ internal_value_lb \in ivS
  /\ disposal_avoid_lb \in daS
  /\ carbon_value_lb \in cvS
  /\ op_cost_site_month \in ocS
  /\ capex_per_site \in cxS
  /\ trainees_per_site_year \in trS
  /\ placement_rate \in plS

\* material flow and KPI sweep, seen through the public portal
InitFlow ==
  InitInputs({"PUBLIC"}, Whole(1, MaxSites), Whole(0, MaxLbs),
             {Q(-1, 2), Q(1, 2), Q(17, 20), Q(9, 10), Q(3, 2)},
             {Q(1, 2), Q(9, 10), Q(3, 2)},
             {Q(-1, 2), Q(1, 10), Q(1, 2)},
             {Q(-1, 2), Q(1, 10), Q(1, 2)},
             {Q(-1, 2), Q(1, 2), Q(3, 2)},
             {N(1)}, {N(1)}, {N(0)}, {N(0)}, {N(1)}, {N(1)}, {N(1)},
             {Q(1, 2)})

\* value, cost and payback sweep, seen by a partner
InitFinance ==
  InitInputs({"Industrial Partner"},
             Whole(1, MaxSites), Whole(0, MaxLbs),
             {Q(1, 2), Q(3, 2)}, {N(1)}, {N(0)}, {N(0)}, {Q(0, 1), Q(1, 2)},
             Whole(0, MaxDollars), {N(1)}, Whole(0, MaxDollars),
             {N(0)}, Whole(0, MaxDollars + 1), Whole(0, MaxDollars),
             {N(1)}, {Q(1, 2)})

\* workforce sweep
InitWorkforce ==
  InitInputs({"Workforce Team", "Corporate Sponsor"}, Whole(1, MaxSites), {N(1)},
             {Q(1, 2)}, {N(1)}, {N(0)}, {N(0)}, {Q(1, 2)},
             {N(1)}, {N(1)}, {N(0)}, {N(0)}, {N(1)}, {N(1)},
             Whole(0, MaxTrainees), RateInputs)

\* baselines of the Admin pro forma
InitAdmin ==
  InitInputs({"Admin"}, Whole(1, MaxSites), Whole(0, MaxLbs),
             {Q(1, 2), Q(1, 1)}, {N(1)}, {N(0)}, {N(0)}, {Q(1, 2)},
             {N(1)}, {N(1)}, {N(0)}, {N(0)},
             Whole(0, MaxDollars), {N(3)}, {N(1)}, {Q(1, 2)})

Init ==
  /\ pc = "core"
  /\ err = "none"
  /\ \/ InitFlow
     \/ InitFinance
     \/ InitWorkforce
     \/ InitAdmin
  /\ W = NaR /\ R = NaR /\ Y = NaR /\ D = NaR /\ S = NaR
  /\ recovered = NaR /\ usable = NaR /\ finished = NaR
  /\ sold_lbs = NaR /\ internal_lbs = NaR
  /\ sell_rev = NaR /\ internal_val = NaR
  /\ disp_avoid = NaR /\ carbon_val = NaR
  /\ gross_value = NaR /\ op_cost = NaR /\ net_profit = NaR
  /\ capex_total = NaR /\ payback_mo = NaR
  /\ trainees_total_year = NaR /\ placed_total_year = NaR
  /\ k1 = "unset" /\ k2 = "unset" /\ k3 = "unset" /\ k4 = "unset"
  /\ years = 0
  /\ growth_sites = NaR /\ growth_lbs = NaR
  /\ growth_price = NaR /\ growth_cost = NaR /\ reinvest_rate = NaR
  /\ value_per_recovered_lb = NaR /\ op_cost_per_site = NaR
  /\ capex_per_site_local = NaR
  /\ sites_y = NaR /\ lbs_site_y = NaR /\ vpr = NaR /\ op_cost_site_y = NaR
  /\ y = 0
  /\ rows = <<>>
  /\ pf = <<>>

\* ------------------------------------------------------------------
\* Core calculations (lines 163-196)
\* ------------------------------------------------------------------
\* W = lbs_per_site_month * sites
Incoming(lbs, s) == RMul(lbs, s)

\* recovered = W * R
Recovered(w, r) == RMul(w, r)

\* usable = recovered * (1.0 - S)
Usable(rec, s) == RMul(rec, RSub(One, s))

\* finished with the downtime term added instead of removed
Finished_plus_downtime(u, yr, d) == RMul(RMul(u, yr), RAdd(One, d))

\* finished = usable * Y * (1.0 - D)
Finished(u, yr, d) == RMul(RMul(u, yr), RSub(One, d))

\* sold_lbs = finished * clamp(sell_share, 0.0, 1.0)
SoldLbs(f, share) == RMul(f, clamp(share, Zero, One))

\* internal_lbs = finished * (1.0 - clamp(sell_share, 0.0, 1.0))
InternalLbs(f, share) == RMul(f, RSub(One, clamp(share, Zero, One)))

\* gross_value = sell_rev + internal_val + disp_avoid + carbon_val
GrossValue(sr, iv, da, cv) == RAdd(RAdd(RAdd(sr, iv), da), cv)

\* payback guarded against a zero net profit only
PaybackMo_zero_guard(np, ct) == IF np = Zero THEN Inf ELSE RDiv(ct, np)

\* payback_mo = float("inf") if net_profit <= 0 else capex_total / net_profit
PaybackMo(np, ct) == IF RLe(np, Zero) THEN Inf ELSE RDiv(ct, np)

\* placed_total_year = trainees_total_year * placement_rate
PlacedTotalYear(t, rate) == RMul(t, rate)

CoreCalculations ==
  /\ pc = "core"
  /\ LET w == Incoming(lbs_per_site_month, sites)
         r == clamp(recovery_rate, Zero, One)
         yr == clamp(yield_rate, Zero, One)
         d == clamp(downtime_rate, Zero, One)
         s == clamp(scrap_rate, Zero, One)
         rec == Recovered(w, r)
         u == Usable(rec, s)
         f == Finished(u, yr, d)
         sold == SoldLbs(f, sell_share)
         intl == InternalLbs(f, sell_share)
         sr == RMul(sold, sell_price_lb)
         iv == RMul(intl, internal_value_lb)
         da == RMul(rec, disposal_avoid_lb)
         cv == RMul(rec, carbon_value_lb)
         gv == GrossValue(sr, iv, da, cv)
         oc == RMul(op_cost_site_month, sites)
         np == RSub(gv, oc)
         ct == RMul(capex_per_site, sites)
         pb == PaybackMo(np, ct)
         tt == RMul(trainees_per_site_year, sites)
     IN /\ W' = w /\ R' = r /\ Y' = yr /\ D' = d /\ S' = s
        /\ recovered' = rec /\ usable' = u /\ finished' = f
        /\ sold_lbs' = sold /\ internal_lbs' = intl
        /\ sell_rev' = sr /\ internal_val' = iv
        /\ disp_avoid' = da /\ carbon_val' = cv
        /\ gross_value' = gv /\ op_cost' = oc /\ net_profit' = np
        /\ capex_total' = ct
        /\ payback_mo' = pb
        /\ IF pb = NaR
           THEN /\ err' = "ZeroDivisionError@186"
                /\ pc' = "crashed"
                /\ UNCHANGED <<trainees_total_year, placed_total_year>>
           ELSE /\ err' = err
                /\ pc' = "portal"
                /\ trainees_total_year' = tt
                /\ placed_total_year' = PlacedTotalYear(tt, placement_rate)
  /\ UNCHANGED <<inputVars, kpiVars, pfInputVars, seedVars, loopVars, pf>>

\* ------------------------------------------------------------------
\* KPI traffic lights (lines 228-231 and 258-261)
\* ------------------------------------------------------------------
KpiLights ==
  /\ k1' = traffic_light(R, target_recovery, warn_band_used)
  /\ k2' = traffic_light(Y, target_yield, warn_band_used)
  /\ k3' = traffic_light(RSub(One, D), RSub(One, target_downtime_max),
                         warn_band_used)
  /\ k4' = traffic_light(RSub(One, S), RSub(One, target_scrap_max),
                         warn_band_used)

\* if role == "PUBLIC": (lines 215-234)
PublicPortal ==
  /\ pc = "portal"
  /\ role = "PUBLIC"
  /\ KpiLights
  /\ pc' = "done"
  /\ UNCHANGED <<err, inputVars, coreVars, pfInputVars, seedVars, loopVars, pf>>

\* else: tabs[0] Overview (lines 239-261)
OrgOverview ==
  /\ pc = "portal"
  /\ role # "PUBLIC"
  /\ KpiLights
  /\ pc' = "finance"
  /\ UNCHANGED <<err, inputVars, coreVars, pfInputVars, seedVars, loopVars, pf>>

\* tabs[3]: if role != "Admin": st.info(...) (lines 299-300)
FinanceNotAdmin ==
  /\ pc = "finance"
  /\ role # "Admin"
  /\ pc' = "done"
  /\ UNCHANGED <<err, inputVars, coreVars, kpiVars, pfInputVars, seedVars,
                 loopVars, pf>>

\* ------------------------------------------------------------------
\* Admin pro forma (lines 302-362)
\* ------------------------------------------------------------------
\* st.number_input(... %) / 100.0
Pct(p) == Q(p, 100)

\* pro forma inputs (lines 305-314)
ProFormaInputs ==
  /\ pc = "finance"
  /\ role = "Admin"
  /\ years' \in MinYears..MaxYears
  /\ \E p \in GrowthSitesPct : growth_sites' = Pct(p)
  /\ \E p \in GrowthLbsPct : growth_lbs' = Pct(p)
  /\ \E p \in GrowthPricePct : growth_price' = Pct(p)
  /\ \E p \in GrowthCostPct : growth_cost' = Pct(p)
  /\ \E p \in ReinvestPct : reinvest_rate' = Pct(p)
  /\ pc' = "seed"
  /\ UNCHANGED <<err, inputVars, coreVars, kpiVars, seedVars, loopVars, pf>>

\* seed ratio guarded with < instead of <=
ValuePerRecoveredLb_strict(rec, gv) ==
  IF RLt(rec, Zero) THEN Zero ELSE RDiv(gv, rec)

\* value_per_recovered_lb = 0.0 if recovered <= 0 else gross_value / recovered
ValuePerRecoveredLb(rec, gv) == IF RLe(rec, Zero) THEN Zero ELSE RDiv(gv, rec)

\* seed of the running state (lines 318-327)
ProFormaSeed ==
  /\ pc = "seed"
  /\ LET v == ValuePerRecoveredLb(recovered, gross_value)
     IN /\ value_per_recovered_lb' = v
        /\ IF v = NaR
           THEN /\ err' = "ZeroDivisionError@318"
                /\ pc' = "crashed"
                /\ UNCHANGED <<op_cost_per_site, capex_per_site_local, loopVars>>
           ELSE /\ err' = err
                /\ pc' = "loop"
                /\ op_cost_per_site' = RMul(op_cost_site_month, N(12))
                /\ capex_per_site_local' = capex_per_site
                /\ rows' = <<>>
                /\ sites_y' = sites
                /\ lbs_site_y' = lbs_per_site_month
                /\ vpr' = v
                /\ op_cost_site_y' = RMul(op_cost_site_month, N(12))
                /\ y' = 1
  /\ UNCHANGED <<inputVars, coreVars, kpiVars, pfInputVars, pf>>

\* growth applied before every row, year 1 included
Grow_every_year(yr, x, g) == RMul(x, RAdd(One, g))

\* if y > 1: x *= (1.0 + growth) (lines 330-334)
Grow(yr, x, g) == IF yr > 1 THEN RMul(x, RAdd(One, g)) ELSE x

\* capex charged on all sites in every year
CapexY_all_sites(yr, sy, gs, cx) == RMax(RMul(sy, cx), Zero)

\* incremental sites taken as sites_y * growth_sites
CapexY_growth_share(yr, sy, gs, cx) ==
  IF yr = 1 THEN RMax(RMul(sy, cx), Zero)
  ELSE RMax(RMul(RMul(sy, gs), cx), Zero)

\* capex_y (lines 342-343)
CapexY(yr, sy, gs, cx) ==
  IF yr = 1 THEN RMax(RMul(sy, cx), Zero)
  ELSE LET before == RDiv(sy, RAdd(One, gs))
       IN IF before = NaR THEN NaR
          ELSE RMax(RMul(RSub(sy, before), cx), Zero)

\* reinvestment without the floor at 0
WorkforceReinvest_no_floor(net, rate) == RMul(net, rate)

\* workforce_reinvest_y = max(net_y, 0.0) * reinvest_rate
WorkforceReinvest(net, rate) == RMul(RMax(net, Zero), rate)

\* one iteration of: for y in range(1, years + 1) (lines 329-357)
ProFormaYear ==
  /\ pc = "loop"
  /\ y <= years
  /\ LET sy == Grow(y, sites_y, growth_sites)
         ly == Grow(y, lbs_site_y, growth_lbs)
         v == Grow(y, vpr, growth_price)
         oy == Grow(y, op_cost_site_y, growth_cost)
         W_y == RMul(RMul(sy, ly), N(12))
         recovered_y == RMul(W_y, R)
         gross_y == RMul(recovered_y, v)
         op_y == RMul(sy, oy)
         net_y == RSub(gross_y, op_y)
         capex_y == CapexY(y, sy, growth_sites, capex_per_site_local)
     IN /\ sites_y' = sy
        /\ lbs_site_y' = ly
        /\ vpr' = v
        /\ op_cost_site_y' = oy
        /\ IF capex_y = NaR
           THEN /\ err' = "ZeroDivisionError@342"
                /\ pc' = "crashed"
                /\ UNCHANGED <<y, rows>>
           ELSE /\ err' = err
                /\ pc' = pc
                /\ y' = y + 1
                /\ rows' = Append(rows,
                     [Year |-> y,
                      Sites |-> sy,
                      AnnualIncomingLbs |-> W_y,
                      AnnualRecoveredLbs |-> recovered_y,
                      GrossValue |-> gross_y,
                      OperatingCost |-> op_y,
                      NetProceeds |-> net_y,
                      CapExNewSites |-> capex_y,
                      WorkforceReinvest |-> WorkforceReinvest(net_y, reinvest_rate)])
  /\ UNCHANGED <<inputVars, coreVars, kpiVars, pfInputVars, seedVars, pf>>

\* cumulative column that adds only the previous row
RECURSIVE cumsum_pairwise(_)
cumsum_pairwise(s) ==
  IF s = <<>> THEN <<>>
  ELSE LET n == Len(s)
           p == cumsum_pairwise(SubSeq(s, 1, n - 1))
       IN Append(p, IF n = 1 THEN s[n] ELSE RAdd(s[n - 1], s[n]))

\* pandas Series.cumsum()
RECURSIVE cumsum(_)
cumsum(s) ==
  IF s = <<>> THEN <<>>
  ELSE LET n == Len(s)
           p == cumsum(SubSeq(s, 1, n - 1))
       IN Append(p, IF n = 1 THEN s[n] ELSE RAdd(p[n - 1], s[n]))

\* pf = pd.DataFrame(rows) with the two cumulative columns (lines 359-362)
ProFormaCumulative ==
  /\ pc = "loop"
  /\ y > years
  /\ LET cn == cumsum([i \in 1..Len(rows) |-> rows[i].NetProceeds])
         cw == cumsum([i \in 1..Len(rows) |-> rows[i].WorkforceReinvest])
     IN pf' = [i \in 1..Len(rows) |->
                [Year |-> rows[i].Year,
                 Sites |-> rows[i].Sites,
                 AnnualIncomingLbs |-> rows[i].AnnualIncomingLbs,
                 AnnualRecoveredLbs |-> rows[i].AnnualRecoveredLbs,
                 GrossValue |-> rows[i].GrossValue,
                 OperatingCost |-> rows[i].OperatingCost,
                 NetProceeds |-> rows[i].NetProceeds,
                 CapExNewSites |-> rows[i].CapExNewSites,
                 WorkforceReinvest |-> rows[i].WorkforceReinvest,
                 CumulativeNetProceeds |-> cn[i],
                 CumulativeWorkforceReinvest |-> cw[i]]]
  /\ pc' = "done"
  /\ UNCHANGED <<err, inputVars, coreVars, kpiVars, pfInputVars, seedVars,
                 loopVars>>

Next ==
  \/ CoreCalculations
  \/ PublicPortal
  \/ OrgOverview
  \/ FinanceNotAdmin
  \/ ProFormaInputs
  \/ ProFormaSeed
  \/ ProFormaYear
  \/ ProFormaCumulative

Spec == Init /\ [][Next]_vars

\* ------------------------------------------------------------------
\* Properties
\* ------------------------------------------------------------------
CoreDone == pc \in {"portal", "finance", "seed", "loop", "done"}

SeedDone == role = "Admin" /\ pc \in {"loop", "done"}

InUnit(x) == RLe(Zero, x) /\ RLe(x, One)

Clamped(x) == IF RLt(x, Zero) THEN Zero ELSE IF RLt(One, x) THEN One ELSE x

RECURSIVE Pow(_, _)
Pow(b, k) == IF k = 0 THEN One ELSE RMul(Pow(b, k - 1), b)

C2_FlowChain ==
  (/\ CoreDone
   /\ RLe(One, sites)
   /\ RLe(Zero, lbs_per_site_month)
   /\ InUnit(recovery_rate) /\ InUnit(yield_rate)
   /\ InUnit(downtime_rate) /\ InUnit(scrap_rate))
  => /\ RLe(Zero, finished)
     /\ RLe(finished, usable)
     /\ RLe(usable, recovered)
     /\ RLe(recovered, W)

C2_Witness ==
  /\ pc = "done"
  /\ InUnit(recovery_rate) /\ InUnit(yield_rate)
  /\ InUnit(downtime_rate) /\ InUnit(scrap_rate)
  /\ RLt(Zero, finished)
  /\ RLt(finished, usable)
  /\ RLt(usable, recovered)
  /\ RLt(recovered, W)

\* C3: netProfit <= 0 gives the infinity sentinel for paybackMonths, never a
\* negative or undefined number and never a raised error; netProfit > 0 gives
\* capexTotal / netProfit.
C3_Payback ==
  /\ err # "ZeroDivisionError@186"
  /\ CoreDone =>
       /\ RLe(net_profit, Zero) => payback_mo = Inf
       /\ RLt(Zero, net_profit) =>
            /\ IsNum(payback_mo)
            /\ RLe(Zero, payback_mo)
            /\ RMul(payback_mo, net_profit) = capex_total

C3_Witness ==
  /\ pc = "done"
  /\ RLt(net_profit, Zero)
  /\ RLt(Zero, capex_total)
  /\ payback_mo = Inf

\* C4: in every projection row k the cumulative fields equal the sum of the
\* per-year fields over rows 1..k, and they never decrease from row to row
\* when all per-year values are non-negative.
RECURSIVE SumNet(_)
SumNet(k) == IF k = 0 THEN Zero ELSE RAdd(SumNet(k - 1), pf[k].NetProceeds)

RECURSIVE SumReinvest(_)
SumReinvest(k) ==
  IF k = 0 THEN Zero ELSE RAdd(SumReinvest(k - 1), pf[k].WorkforceReinvest)

C4_Cumulative ==
  /\ \A k \in 1..Len(pf) :
       /\ pf[k].CumulativeNetProceeds = SumNet(k)
       /\ pf[k].CumulativeWorkforceReinvest = SumReinvest(k)
  /\ (\A i \in 1..Len(pf) :
        /\ RLe(Zero, pf[i].NetProceeds)
        /\ RLe(Zero, pf[i].WorkforceReinvest))
     => \A k \in 2..Len(pf) :
          /\ RLe(pf[k - 1].CumulativeNetProceeds, pf[k].CumulativeNetProceeds)
          /\ RLe(pf[k - 1].CumulativeWorkforceReinvest,
                 pf[k].CumulativeWorkforceReinvest)

C4_Witness ==
  /\ pc = "done"
  /\ Len(pf) = MaxYears
  /\ \A i \in 1..Len(pf) : RLt(Zero, pf[i].NetProceeds)
  /\ RLt(pf[1].CumulativeNetProceeds, pf[MaxYears].CumulativeNetProceeds)
  /\ RLt(pf[1].CumulativeWorkforceReinvest,
         pf[MaxYears].CumulativeWorkforceReinvest)

\* C5: with monthly recovered <= 0 the seed valuePerRecoveredLb is 0 and no
\* division is attempted; otherwise it is monthly grossValue / recovered.
C5_SeedRatio ==
  /\ err # "ZeroDivisionError@318"
  /\ SeedDone =>
       /\ RLe(recovered, Zero) => value_per_recovered_lb = Zero
       /\ RLt(Zero, recovered) =>
            /\ IsNum(value_per_recovered_lb)
            /\ RMul(value_per_recovered_lb, recovered) = gross_value

C5_Witness ==
  /\ pc = "done"
  /\ role = "Admin"
  /\ recovered = Zero
  /\ value_per_recovered_lb = Zero
  /\ Len(pf) = years

\* C6: with growthSites = 0 the sites value is the same in every row and
\* capexNewSites is 0 in every row from year 2 onward.
C6_NoSiteGrowth ==
  (SeedDone /\ growth_sites = Zero) =>
    \A i \in 1..Len(rows) :
      /\ rows[i].Sites = sites
      /\ i >= 2 => rows[i].CapExNewSites = Zero

C6_Witness ==
  /\ pc = "done"
  /\ growth_sites = Zero
  /\ Len(rows) = MaxYears
  /\ RLt(Zero, rows[1].CapExNewSites)
  /\ rows[MaxYears].CapExNewSites = Zero

\* C7: the traffic light is green if value >= target, yellow if
\* target - 0.05 <= value < target and red otherwise.
Light(value, target) ==
  IF RLe(target, value) THEN "green"
  ELSE IF RLe(RSub(target, Q(5, 100)), value) /\ RLt(value, target)
       THEN "yellow"
  ELSE "red"

C7_TrafficLight ==
  k1 # "unset" =>
    /\ k1 = Light(R, Q(90, 100))
    /\ k2 = Light(Y, Q(92, 100))
    /\ k3 = Light(RSub(One, D), Q(92, 100))
    /\ k4 = Light(RSub(One, S), Q(93, 100))

C7_Witness ==
  /\ pc = "done"
  /\ R = Q(85, 100)
  /\ k1 = "yellow"
  /\ k2 = "red"
  /\ k3 = "green"

\* C8: in every projection row workforceReinvest = max(netProceeds, 0) x
\* reinvestRate, so it is never negative, and it is 0 where netProceeds < 0.
C8_Reinvest ==
  SeedDone =>
    \A i \in 1..Len(rows) :
      /\ rows[i].WorkforceReinvest =
           (IF RLt(rows[i].NetProceeds, Zero) THEN Zero
            ELSE RMul(rows[i].NetProceeds, reinvest_rate))
      /\ RLe(Zero, rows[i].WorkforceReinvest)

C8_Witness ==
  /\ pc = "done"
  /\ \E i, j \in 1..Len(rows) :
       /\ RLt(rows[i].NetProceeds, Zero)
       /\ rows[i].WorkforceReinvest = Zero
       /\ RLt(Zero, rows[j].WorkforceReinvest)

\* C9: capexNewSites is sites x capexPerSite in year 1 and, for y > 1, the
\* capex on the sites added in that year, (sites of row y - sites of row
\* y-1) x capexPerSite floored at 0; it is never negative.
C9_CapexNewSites ==
  SeedDone =>
    \A i \in 1..Len(rows) :
      /\ i = 1 => rows[i].CapExNewSites = RMul(sites, capex_per_site)
      /\ i > 1 =>
           rows[i].CapExNewSites =
             RMax(RMul(RSub(rows[i].Sites, rows[i - 1].Sites), capex_per_site),
                  Zero)
      /\ RLe(Zero, rows[i].CapExNewSites)

C9_Witness ==
  /\ pc = "done"
  /\ Len(rows) = MaxYears
  /\ RLt(Zero, growth_sites)
  /\ RLt(Zero, rows[2].CapExNewSites)
  /\ RLt(rows[2].CapExNewSites, rows[1].CapExNewSites)
  /\ RLt(rows[2].CapExNewSites, rows[MaxYears].CapExNewSites)

\* C10: growth is applied exactly once per year and only before rows y > 1:
\* row 1 comes from the unmodified seed state, each running state variable
\* of row y is that of row y-1 times (1 + its growth rate), recoveryRate is
\* the same in every row, and the result has exactly `years` rows with year
\* indices 1..years in order.
C10_Compounding ==
  SeedDone =>
    LET k == Len(rows)
        sitesAt(i) == RMul(sites, Pow(RAdd(One, growth_sites), i - 1))
        lbsAt(i) == RMul(lbs_per_site_month, Pow(RAdd(One, growth_lbs), i - 1))
        vprAt(i) == RMul(value_per_recovered_lb,
                         Pow(RAdd(One, growth_price), i - 1))
        costAt(i) == RMul(RMul(op_cost_site_month, N(12)),
                          Pow(RAdd(One, growth_cost), i - 1))
    IN /\ k = y - 1
       /\ k <= years
       /\ pc = "done" => k = years /\ Len(pf) = years
       /\ \A i \in 1..k :
            /\ rows[i].Year = i
            /\ rows[i].Sites = sitesAt(i)
            /\ rows[i].AnnualIncomingLbs =
                 RMul(RMul(sitesAt(i), lbsAt(i)), N(12))
            /\ rows[i].AnnualRecoveredLbs = RMul(rows[i].AnnualIncomingLbs, R)
            /\ rows[i].GrossValue = RMul(rows[i].AnnualRecoveredLbs, vprAt(i))
            /\ rows[i].OperatingCost = RMul(sitesAt(i), costAt(i))
       /\ k >= 1 =>
            /\ sites_y = sitesAt(k)
            /\ lbs_site_y = lbsAt(k)
            /\ vpr = vprAt(k)
            /\ op_cost_site_y = costAt(k)
       /\ \A i \in 1..Len(pf) :
            /\ pf[i].Year = i
            /\ pf[i].Sites = rows[i].Sites
            /\ pf[i].GrossValue = rows[i].GrossValue

C10_Witness ==
  /\ pc = "done"
  /\ years = MaxYears
  /\ Len(pf) = MaxYears
  /\ pf[MaxYears].Year = MaxYears
  /\ RLt(Zero, growth_sites)
  /\ RLt(Zero, growth_lbs)
  /\ RLt(Zero, growth_price)
  /\ RLt(Zero, growth_cost)
  /\ RLt(pf[1].Sites, pf[2].Sites)
  /\ RLt(pf[1].GrossValue, pf[MaxYears].GrossValue)

====
